---- MODULE Spec2Model ----
(***************************************************************************)
(* sdl2_mt: a single owner thread (sdl_handler) that holds the SDL         *)
(* context, the window registry and the unhandled-event list, and the      *)
(* Sdl2Mt handles through which caller threads send it commands over an    *)
(* mpsc channel (src/src/lib.rs).                                          *)
(***************************************************************************)
EXTENDS Integers, Sequences, FiniteSets, TLC

\* ---------------------------------------------------------------- bounds
NumCallers == 2      \* caller threads, each holding one clone of the handle
MaxCmds    == 3      \* commands sent over the whole run
MaxEvents  == 3      \* events the SDL event source delivers over the run
BufExtra   == 1      \* SpecBuf: the first cycle polls up to Cap + BufExtra events
BufCmds    == 2      \* SpecBuf: handle_ui_events cycles after the first
BufFresh   == 1      \* SpecBuf: events arriving after the first cycle

\* ------------------------------------------------------ program constants
Cap == 2000          \* lib.rs:58  len - 2000

Callers == 1..NumCallers

VARIABLES
    chan,             \* messages in the command channel, oldest first
    rxAlive,          \* the command Receiver has not been dropped
    cpc,              \* caller thread: "idle", "waiting" (in rx.recv()), "gone"
    cop,              \* caller thread: the operation it called last
    result,           \* caller thread: what that operation returned
    reply,            \* caller thread: the one-shot reply channel of its call
    nextId,           \* number of the next command sent
    opc,              \* owner thread: position in sdl_handler
    cur,              \* owner thread: `message`, the command being executed
    windows,          \* owner thread: `windows`, id -> canvas
    nextWindowId,     \* SDL: id of the next window it creates
    window_id,        \* owner thread: `window_id` of the CreateWindow arm
    unhandled_events, \* owner thread: `unhandled_events`
    len,              \* owner thread: `len` of the HandleEvent arm
    num_events_to_drop, \* owner thread: `num_events_to_drop`
    event_num,        \* owner thread: `event_num`
    pending,          \* SDL: the events poll_iter() has not returned yet
    nextEvent,        \* SDL: number of the next event
    unrun,            \* history: caller -> its Lambdas sent and not yet run
    why,              \* history: what ended the loop: "Exit", "closed", "panic"
    executing,        \* history: commands whose callback is running
    ran,              \* history: commands executed to completion
    produced,         \* history: caller -> what the factory of its create_window returned
    closed,           \* history: window ids a Lambda took out of the map
    claimed,          \* history: events some handler returned true for
    evicted,          \* history: events dropped unclaimed in phase 1
    backlog0,         \* history: unhandled_events when the cycle started
    polled,           \* history: events poll_iter() returned in this cycle
    delivered         \* history: events passed to handle_event in this cycle

callerVars == <<cpc, cop, result, reply, nextId, unrun>>
ownerVars  == <<opc, cur, windows, nextWindowId, window_id, executing, ran, why,
                closed>>
eventVars  == <<unhandled_events, len, num_events_to_drop, event_num,
                claimed, evicted, backlog0, polled, delivered>>
vars == <<chan, rxAlive, callerVars, ownerVars, eventVars, pending, nextEvent, produced>>

\* ---------------------------------------------------------------- values
None     == [tag |-> "None", id |-> 0]
Some(i)  == [tag |-> "Some", id |-> i]
Unit     == [tag |-> "Unit", id |-> 0]
NotRun   == [tag |-> "-", id |-> 0]
Ok(v)    == [tag |-> "Ok", val |-> v]
UiThreadExited == [tag |-> "UiThreadExited", val |-> None]
NoResult == [tag |-> "-", val |-> None]
SyncOps  == {"create_window", "handle_ui_events"}

\* mpsc::channel(): a fresh reply channel; tx is the Sender carried by the
\* command, full/val the value sent and not yet received
NewReply    == [tx |-> TRUE, full |-> FALSE, val |-> None]
ClosedReply == [tx |-> FALSE, full |-> FALSE, val |-> None]
Replied(v)  == [tx |-> FALSE, full |-> TRUE, val |-> v]

NoMsg == [kind |-> "-", from |-> 0, id |-> 0, h |-> "-"]
Lambda(c, i, w)       == [kind |-> "Lambda", from |-> c, id |-> i, h |-> w]
CreateWindow(c, i)    == [kind |-> "CreateWindow", from |-> c, id |-> i, h |-> "-"]
HandleEvent(c, i, h)  == [kind |-> "HandleEvent", from |-> c, id |-> i, h |-> h]
Exit(c, i)            == [kind |-> "Exit", from |-> c, id |-> i, h |-> "-"]

HasReplyTx(m) == m.kind \in {"CreateWindow", "HandleEvent"}

Range(s) == {s[i] : i \in 1..Len(s)}
Iota(n)  == [i \in 1..n |-> i]

\* The work a Lambda does with &mut windows: it draws, or it takes a canvas
\* out of the map.
Works == {"draw", "close"}

\* What handle_event may return for event e.  "any" is an arbitrary FnMut
\* closure; the others are the closures `|..| false`, `|..| true` and one
\* that takes every second event.
Claims(h, e) ==
    CASE h = "none" -> {FALSE}
      [] h = "all"  -> {TRUE}
      [] h = "even" -> {e % 2 = 0}
      [] OTHER      -> BOOLEAN

\* ------------------------------------------------------------------ init
Init ==
    /\ chan = <<>>
    /\ rxAlive = TRUE
    /\ cpc = [c \in Callers |-> "idle"]
    /\ cop = [c \in Callers |-> "-"]
    /\ result = [c \in Callers |-> NoResult]
    /\ reply = [c \in Callers |-> ClosedReply]
    /\ nextId = 1
    /\ opc = "init"
    /\ cur = NoMsg
    /\ windows = << >>
    /\ nextWindowId = 1
    /\ window_id = None
    /\ unhandled_events = <<>>
    /\ len = 0
    /\ num_events_to_drop = 0
    /\ event_num = 0
    /\ pending = <<>>
    /\ nextEvent = 1
    /\ unrun = [c \in Callers |-> {}]
    /\ why = "-"
    /\ executing = {}
    /\ ran = {}
    /\ produced = [c \in Callers |-> NotRun]
    /\ closed = {}
    /\ claimed = {}
    /\ evicted = {}
    /\ backlog0 = <<>>
    /\ polled = <<>>
    /\ delivered = <<>>

\* --------------------------------------------------------- caller threads
\* self.0.send(m): Ok and queued while the Receiver lives, Err afterwards
\* (mutant) send puts the message in front of the queued ones
Enqueue_Front(q, m) == <<m>> \o q

\* the channel is a queue: send puts the message behind the queued ones
Enqueue(q, m) == Append(q, m)

\* (mutant) send never notices that the Receiver is gone
SendOk_Always == TRUE

\* send is Ok exactly while the Receiver lives
SendOk == rxAlive

Send(m) ==
    /\ SendOk
    /\ nextId <= MaxCmds
    /\ chan' = Enqueue(chan, m)
    /\ nextId' = nextId + 1
    /\ unrun' = IF m.kind = "Lambda"
                THEN [unrun EXCEPT ![m.from] = @ \cup {m.id}] ELSE unrun

SendFails ==
    /\ ~SendOk
    /\ UNCHANGED <<chan, nextId, unrun>>

\* (mutant) the calling thread calls the closure on the map itself
Boxed_Called(w, ws) == IF w = "close" /\ DOMAIN ws # {} THEN << >> ELSE ws

\* Lambda(lambda): the boxed closure is moved into the message, the calling
\* thread does not call it; ws is the map the owner thread holds
Boxed(w, ws) == ws

\* Sdl2Mt::run_on_ui_thread
run_on_ui_thread(c) ==
    /\ cpc[c] = "idle"
    /\ cop' = [cop EXCEPT ![c] = "run_on_ui_thread"]
    /\ \E w \in Works :
         /\ windows' = Boxed(w, windows)
         /\ \/ /\ Send(Lambda(c, nextId, w))
               /\ result' = [result EXCEPT ![c] = Ok(Unit)]
            \/ /\ SendFails
               /\ result' = [result EXCEPT ![c] = UiThreadExited]
    /\ UNCHANGED <<rxAlive, cpc, reply, opc, cur, nextWindowId, window_id, executing, ran,
                   why, closed, eventVars, pending, nextEvent, produced>>

\* Sdl2Mt::create_window up to rx.recv()
create_window(c) ==
    /\ cpc[c] = "idle"
    /\ cop' = [cop EXCEPT ![c] = "create_window"]
    /\ \/ /\ Send(CreateWindow(c, nextId))
          /\ reply' = [reply EXCEPT ![c] = NewReply]
          /\ cpc' = [cpc EXCEPT ![c] = "waiting"]
          /\ result' = [result EXCEPT ![c] = NoResult]
       \/ /\ SendFails
          /\ result' = [result EXCEPT ![c] = UiThreadExited]
          /\ UNCHANGED <<reply, cpc>>
    /\ produced' = [produced EXCEPT ![c] = NotRun]
    /\ UNCHANGED <<rxAlive, ownerVars, eventVars, pending, nextEvent>>

\* The closures given to handle_ui_events
Handlers == {"any"}
BufHandlers == {"none", "all", "even"}

\* Sdl2Mt::handle_ui_events up to rx.recv()
handle_ui_events_with(c, hs) ==
    /\ cpc[c] = "idle"
    /\ cop' = [cop EXCEPT ![c] = "handle_ui_events"]
    /\ \/ /\ \E h \in hs : Send(HandleEvent(c, nextId, h))
          /\ reply' = [reply EXCEPT ![c] = NewReply]
          /\ cpc' = [cpc EXCEPT ![c] = "waiting"]
          /\ result' = [result EXCEPT ![c] = NoResult]
       \/ /\ SendFails
          /\ result' = [result EXCEPT ![c] = UiThreadExited]
          /\ UNCHANGED <<reply, cpc>>
    /\ UNCHANGED <<rxAlive, ownerVars, eventVars, pending, nextEvent, produced>>

handle_ui_events(c) == handle_ui_events_with(c, Handlers)

\* (mutant) try_recv: the caller does not block when nothing was sent yet
recv_TryRecv(c) ==
    /\ cpc[c] = "waiting"
    /\ \/ /\ reply[c].full
          /\ result' = [result EXCEPT ![c] = Ok(reply[c].val)]
       \/ /\ ~reply[c].full
          /\ result' = [result EXCEPT ![c] = UiThreadExited]
    /\ cpc' = [cpc EXCEPT ![c] = "idle"]
    /\ reply' = [reply EXCEPT ![c] = ClosedReply]
    /\ UNCHANGED <<chan, rxAlive, cop, nextId, unrun, ownerVars, eventVars, pending, nextEvent, produced>>

\* rx.recv().map_err(map_ute): the value if one was sent, Err once the
\* Sender is gone and nothing was sent, blocked otherwise
recv(c) ==
    /\ cpc[c] = "waiting"
    /\ \/ /\ reply[c].full
          /\ result' = [result EXCEPT ![c] = Ok(reply[c].val)]
       \/ /\ ~reply[c].full
          /\ ~reply[c].tx
          /\ result' = [result EXCEPT ![c] = UiThreadExited]
    /\ cpc' = [cpc EXCEPT ![c] = "idle"]
    /\ reply' = [reply EXCEPT ![c] = ClosedReply]
    /\ UNCHANGED <<chan, rxAlive, cop, nextId, unrun, ownerVars, eventVars, pending, nextEvent, produced>>

\* Sdl2Mt::exit(self): sends Exit and consumes the handle
exit(c) ==
    /\ cpc[c] = "idle"
    /\ cop' = [cop EXCEPT ![c] = "exit"]
    /\ cpc' = [cpc EXCEPT ![c] = "gone"]
    /\ \/ /\ Send(Exit(c, nextId))
          /\ result' = [result EXCEPT ![c] = Ok(Unit)]
       \/ /\ SendFails
          /\ result' = [result EXCEPT ![c] = UiThreadExited]
    /\ UNCHANGED <<rxAlive, reply, ownerVars, eventVars, pending, nextEvent, produced>>

\* the handle goes out of scope: its Sender is dropped
drop_handle(c) ==
    /\ cpc[c] = "idle"
    /\ cpc' = [cpc EXCEPT ![c] = "gone"]
    /\ UNCHANGED <<chan, rxAlive, cop, result, reply, nextId, unrun, ownerVars, eventVars,
                   pending, nextEvent, produced>>

\* ------------------------------------------------------------ SDL events
\* the event source gets a new event
EventArrives ==
    /\ opc \notin {"init", "terminated"}
    /\ nextEvent <= MaxEvents
    /\ pending' = Append(pending, nextEvent)
    /\ nextEvent' = nextEvent + 1
    /\ UNCHANGED <<chan, rxAlive, callerVars, ownerVars, eventVars, produced>>

\* ----------------------------------------------------------- owner thread
\* Dropping the Receiver drops the queued commands, and with each its reply
\* Sender; dropping `message` drops the reply Sender of the command at hand.
\* (mutant) the reply Senders of dropped commands are leaked
DropSenders_Leak(msgs) == reply

DropSenders(msgs) ==
    [c \in Callers |->
        IF \E m \in msgs : HasReplyTx(m) /\ m.from = c
        THEN [reply[c] EXCEPT !.tx = FALSE]
        ELSE reply[c]]

\* the owner thread leaves sdl_handler: rx, message, windows, events dropped
OwnerGone(reason) ==
    /\ opc' = "terminated"
    /\ why' = reason
    /\ rxAlive' = FALSE
    /\ reply' = DropSenders(Range(chan) \cup {cur})
    /\ chan' = <<>>
    /\ cur' = NoMsg
    /\ windows' = << >>
    /\ unhandled_events' = <<>>
    /\ executing' = {}
    /\ window_id' = None
    /\ len' = 0
    /\ num_events_to_drop' = 0
    /\ event_num' = 0
    /\ backlog0' = <<>>
    /\ polled' = <<>>
    /\ delivered' = <<>>
    /\ pending' = <<>>

\* sdl2::init().unwrap(), video().unwrap(), event_pump().unwrap()
OwnerInit ==
    /\ opc = "init"
    /\ \/ /\ opc' = "recv"
          /\ UNCHANGED <<chan, rxAlive, reply, cur, windows, unhandled_events, executing,
                         why, window_id, len, num_events_to_drop, event_num,
                         backlog0, polled, delivered, pending>>
       \/ OwnerGone("panic")
    /\ UNCHANGED <<cpc, cop, result, nextId, unrun, nextWindowId, ran, produced, closed,
                   claimed, evicted, nextEvent>>

\* (mutant) the loop over the backlog stops one entry early
AfterPhase1_Short(i, n) == IF i + 1 < n THEN "phase1" ELSE "phase2"

\* where the body of `for event_num in 0..len` goes next
AfterPhase1(i, n) == IF i < n THEN "phase1" ELSE "phase2"

\* (mutant) the loop takes the next message while a command is being executed
CanRecv_Anytime == opc \in {"recv", "lambda", "create", "phase1", "phase2", "reply"}

\* the loop asks rx for the next message only at the top of the `for`
CanRecv == opc = "recv"

\* (mutant) Exit is skipped and the loop goes on
ExitArm_Continue == "recv"

\* lib.rs:88  Exit => break
ExitArm == "break"

\* (mutants) the subtraction the other way round; a capacity of 1999
NumEventsToDrop_Swapped(n) == Cap - n
NumEventsToDrop_Eager(n) == n - (Cap - 1)

\* lib.rs:58  let num_events_to_drop = len - 2000;  (isize: may be negative)
NumEventsToDrop(n) == n - Cap

\* `for message in rx { match message {` : take the next command
OwnerRecv ==
    /\ CanRecv
    /\ chan # <<>>
    /\ LET m == Head(chan) IN
       /\ chan' = Tail(chan)
       /\ cur' = m
       /\ CASE m.kind = "Lambda" ->
                 /\ opc' = "lambda"
                 /\ executing' = executing \cup {m.id}
                 /\ UNCHANGED eventVars
            [] m.kind = "CreateWindow" ->
                 /\ opc' = "create"
                 /\ executing' = executing \cup {m.id}
                 /\ UNCHANGED eventVars
            [] m.kind = "HandleEvent" ->
                 /\ len' = Len(unhandled_events)
                 /\ num_events_to_drop' = NumEventsToDrop(Len(unhandled_events))
                 /\ event_num' = 0
                 /\ opc' = AfterPhase1(0, Len(unhandled_events))
                 /\ executing' = executing \cup {m.id}
                 /\ backlog0' = unhandled_events
                 /\ polled' = <<>>
                 /\ delivered' = <<>>
                 /\ UNCHANGED <<unhandled_events, claimed, evicted>>
            [] OTHER ->
                 /\ opc' = ExitArm
                 /\ UNCHANGED <<executing, eventVars>>
       /\ why' = IF m.kind = "Exit" THEN "Exit" ELSE why
       /\ ran' = IF m.kind = "Exit" THEN ran \cup {m.id} ELSE ran
    /\ UNCHANGED <<rxAlive, callerVars, windows, nextWindowId, window_id, produced,
                   closed, pending, nextEvent>>

\* (mutant) the iteration ends as soon as every Sender is dropped
Disconnected_Early == \A c \in Callers : cpc[c] = "gone"

\* rx.next() is None: every Sender was dropped and the channel is empty
Disconnected == chan = <<>> /\ \A c \in Callers : cpc[c] = "gone"

\* the `for` ends because the channel is closed
OwnerChannelClosed ==
    /\ opc = "recv"
    /\ Disconnected
    /\ opc' = "break"
    /\ why' = "closed"
    /\ UNCHANGED <<chan, rxAlive, callerVars, cur, windows, nextWindowId, window_id,
                   executing, ran, produced, closed, eventVars, pending, nextEvent>>

\* the loop is left: sdl_handler returns and its locals are dropped
OwnerReturn ==
    /\ opc = "break"
    /\ OwnerGone(why)
    /\ UNCHANGED <<cpc, cop, result, nextId, unrun, nextWindowId, ran, produced, closed,
                   claimed, evicted, nextEvent>>

\* a callback panics: the owner thread unwinds
OwnerPanic ==
    /\ opc \in {"lambda", "create", "phase1", "phase2"}
    /\ OwnerGone("panic")
    /\ UNCHANGED <<cpc, cop, result, nextId, unrun, nextWindowId, ran, produced, closed,
                   claimed, evicted, nextEvent>>

\* what a Lambda leaves of the map it was given
WorkOn(w, ws) ==
    IF w = "close" /\ DOMAIN ws # {}
    THEN {[i \in DOMAIN ws \ {k} |-> ws[i]] : k \in DOMAIN ws}
    ELSE {ws}

\* Lambda(mut lambda) => lambda(&mut sdl_context, &mut windows)
LambdaArm ==
    /\ opc = "lambda"
    /\ windows' \in WorkOn(cur.h, windows)
    /\ closed' = closed \cup (DOMAIN windows \ DOMAIN windows')
    /\ opc' = "recv"
    /\ executing' = executing \ {cur.id}
    /\ ran' = ran \cup {cur.id}
    /\ unrun' = [unrun EXCEPT ![cur.from] = @ \ {cur.id}]
    /\ cur' = NoMsg
    /\ UNCHANGED <<chan, rxAlive, cpc, cop, result, reply, nextId, nextWindowId, window_id, why, produced,
                   eventVars, pending, nextEvent>>

\* (mutant) the new canvas replaces the map
Insert_Replace(ws, id, canvas) == [i \in {id} |-> canvas]

\* windows.insert(id, canvas): the canvas is named by the command that made it
Insert(ws, id, canvas) == [i \in DOMAIN ws \cup {id} |-> IF i = id THEN canvas ELSE ws[i]]

\* CreateWindow arm up to `let _ = tx.send(window_id)`
CreateWindowArm ==
    /\ opc = "create"
    /\ \/ /\ windows' = Insert(windows, nextWindowId, cur.id)
          /\ window_id' = Some(nextWindowId)
          /\ nextWindowId' = nextWindowId + 1
          /\ produced' = [produced EXCEPT ![cur.from] = Some(nextWindowId)]
       \/ /\ window_id' = None
          /\ produced' = [produced EXCEPT ![cur.from] = None]
          /\ UNCHANGED <<windows, nextWindowId>>
    /\ opc' = "reply"
    /\ executing' = executing \ {cur.id}
    /\ UNCHANGED <<chan, rxAlive, callerVars, cur, ran, why, closed, eventVars,
                   pending, nextEvent>>

\* (mutants) one entry too many is dropped; the handler's answer is ignored;
\* one entry too few is dropped
Phase1Keep_Strict(handled, i, drop) == ~handled /\ i > drop
Phase1Keep_Always(handled, i, drop) == i >= drop
Phase1Keep_Loose(handled, i, drop) == ~handled /\ i + 1 >= drop

\* lib.rs:62,71: an event of the backlog goes back on the list when the
\* handler did not take it and it is not among the oldest ones to drop
Phase1Keep(handled, i, drop) == ~handled /\ i >= drop

\* (mutant) a polled event is kept only while the list is below 2000 entries
Phase2Keep_Capped(handled) == ~handled /\ Len(unhandled_events) < Cap

\* lib.rs:78: a polled event goes on the list when the handler did not take it
Phase2Keep(handled) == ~handled

\* (mutants) push_front; the event is pushed twice
PushBack_Front(list, event) == <<event>> \o list
PushBack_Twice(list, event) == Append(Append(list, event), event)

\* unhandled_events.push_back(event)
PushBack(list, event) == Append(list, event)

\* the variables the loop over the backlog works on
LoopState ==
    [list |-> unhandled_events, i |-> event_num, pc |-> opc,
     delivered |-> delivered, claimed |-> claimed, evicted |-> evicted]

\* lib.rs:59-75: one turn of `for event_num in 0..len`, on the handler's answer
Phase1Turn(st, handled, n, drop) ==
    LET event == Head(st.list)
        keep  == Phase1Keep(handled, st.i, drop)
    IN  [list      |-> IF keep THEN PushBack(Tail(st.list), event) ELSE Tail(st.list),
         i         |-> st.i + 1,
         pc        |-> AfterPhase1(st.i + 1, n),
         delivered |-> Append(st.delivered, event),
         claimed   |-> IF handled THEN st.claimed \cup {event} ELSE st.claimed,
         evicted   |-> IF ~handled /\ ~keep THEN st.evicted \cup {event} ELSE st.evicted]

SetLoopState(st) ==
    /\ unhandled_events' = st.list
    /\ event_num' = st.i
    /\ opc' = st.pc
    /\ delivered' = st.delivered
    /\ claimed' = st.claimed
    /\ evicted' = st.evicted

\* one turn of `for event_num in 0..len`
Phase1Step ==
    /\ opc = "phase1"
    /\ event_num < len
    /\ \E handled \in Claims(cur.h, Head(unhandled_events)) :
         SetLoopState(Phase1Turn(LoopState, handled, len, num_events_to_drop))
    /\ UNCHANGED <<chan, rxAlive, callerVars, cur, windows, nextWindowId, window_id,
                   executing, ran, why, produced, closed, len, num_events_to_drop,
                   backlog0, polled, pending, nextEvent>>

\* the answer of a closure that answers the same for an event every time
Answer(h, e) == CHOOSE b \in Claims(h, e) : TRUE

\* lib.rs:59-75: the next k turns of `for event_num in 0..len` (first one
\* half of them, then the other half)
RECURSIVE Phase1Turns(_, _, _, _, _)
Phase1Turns(st, h, n, drop, k) ==
    IF k = 0 \/ st.pc # "phase1" THEN st
    ELSE IF k = 1 THEN Phase1Turn(st, Answer(h, Head(st.list)), n, drop)
    ELSE LET half == Phase1Turns(st, h, n, drop, k \div 2)
         IN  Phase1Turns(half, h, n, drop, k - (k \div 2))

\* the whole `for event_num in 0..len`, the closure being one of BufHandlers
Phase1Run ==
    /\ opc = "phase1"
    /\ event_num < len
    /\ cur.h \in BufHandlers
    /\ SetLoopState(Phase1Turns(LoopState, cur.h, len, num_events_to_drop, len - event_num))
    /\ UNCHANGED <<chan, rxAlive, callerVars, cur, windows, nextWindowId, window_id,
                   executing, ran, why, produced, closed, len, num_events_to_drop,
                   backlog0, polled, pending, nextEvent>>

\* one turn of `for event in events.poll_iter()`
Phase2Step ==
    /\ opc = "phase2"
    /\ pending # <<>>
    /\ LET event == Head(pending) IN
       /\ pending' = Tail(pending)
       /\ polled' = Append(polled, event)
       /\ delivered' = Append(delivered, event)
       /\ \E handled \in Claims(cur.h, event) :
            /\ unhandled_events' =
                  IF Phase2Keep(handled) THEN PushBack(unhandled_events, event)
                  ELSE unhandled_events
            /\ claimed' = IF handled THEN claimed \cup {event} ELSE claimed
    /\ UNCHANGED <<chan, rxAlive, callerVars, ownerVars, produced, len, num_events_to_drop,
                   event_num, evicted, backlog0, nextEvent>>

\* poll_iter() is exhausted
Phase2End ==
    /\ opc = "phase2"
    /\ pending = <<>>
    /\ opc' = "reply"
    /\ executing' = executing \ {cur.id}
    /\ UNCHANGED <<chan, rxAlive, callerVars, cur, windows, nextWindowId, window_id,
                   ran, why, produced, closed, eventVars, pending, nextEvent>>

\* (mutant) the reply never carries the id
ReplyValue_None(m) == IF m.kind = "CreateWindow" THEN None ELSE Unit

\* `let _ = tx.send(..)` and the end of the arm, where tx is dropped
ReplyValue(m) == IF m.kind = "CreateWindow" THEN window_id ELSE Unit

SendReply ==
    /\ opc = "reply"
    /\ reply' = [reply EXCEPT ![cur.from] = Replied(ReplyValue(cur))]
    /\ opc' = "recv"
    /\ ran' = ran \cup {cur.id}
    /\ cur' = NoMsg
    /\ window_id' = None
    /\ len' = 0
    /\ num_events_to_drop' = 0
    /\ event_num' = 0
    /\ backlog0' = <<>>
    /\ polled' = <<>>
    /\ delivered' = <<>>
    /\ UNCHANGED <<chan, rxAlive, cpc, cop, result, nextId, unrun, windows, nextWindowId,
                   executing, why, produced, closed, unhandled_events, claimed, evicted,
                   pending, nextEvent>>

\* ------------------------------------------------------------------ next
Next ==
    \/ \E c \in Callers : run_on_ui_thread(c)
    \/ \E c \in Callers : create_window(c)
    \/ \E c \in Callers : handle_ui_events(c)
    \/ \E c \in Callers : recv(c)
    \/ \E c \in Callers : exit(c)
    \/ \E c \in Callers : drop_handle(c)
    \/ EventArrives
    \/ OwnerInit
    \/ OwnerRecv
    \/ OwnerChannelClosed
    \/ OwnerReturn
    \/ OwnerPanic
    \/ LambdaArm
    \/ CreateWindowArm
    \/ Phase1Step
    \/ Phase2Step
    \/ Phase2End
    \/ SendReply

Spec == Init /\ [][Next]_vars

\* ------------------------------------------------- the list at its capacity
\* One caller running handle_ui_events cycles with the closures of
\* BufHandlers, after a first cycle in which the event source held n events
\* (n about Cap) and the closure took none: AfterFirstCycle(n) is the state
\* that cycle ends in.
BufLens      == Cap .. (Cap + BufExtra)
MaxBufEvents == Cap + BufExtra + BufFresh

AfterFirstCycle(n) ==
    /\ chan = <<>>
    /\ rxAlive = TRUE
    /\ cpc = [c \in Callers |-> "idle"]
    /\ cop = [c \in Callers |-> IF c = 1 THEN "handle_ui_events" ELSE "-"]
    /\ result = [c \in Callers |-> IF c = 1 THEN Ok(Unit) ELSE NoResult]
    /\ reply = [c \in Callers |-> ClosedReply]
    /\ nextId = 2
    /\ unrun = [c \in Callers |-> {}]
    /\ opc = "recv"
    /\ cur = NoMsg
    /\ windows = << >>
    /\ nextWindowId = 1
    /\ window_id = None
    /\ unhandled_events = Iota(n)
    /\ len = 0
    /\ num_events_to_drop = 0
    /\ event_num = 0
    /\ pending = <<>>
    /\ nextEvent = n + 1
    /\ why = "-"
    /\ executing = {}
    /\ ran = {1}
    /\ produced = [c \in Callers |-> NotRun]
    /\ closed = {}
    /\ claimed = {}
    /\ evicted = {}
    /\ backlog0 = <<>>
    /\ polled = <<>>
    /\ delivered = <<>>

InitBuf == \E n \in BufLens : AfterFirstCycle(n)

\* the event source gets a new event between two commands
BufArrives ==
    /\ opc = "recv"
    /\ nextEvent <= MaxBufEvents
    /\ pending' = Append(pending, nextEvent)
    /\ nextEvent' = nextEvent + 1
    /\ UNCHANGED <<chan, rxAlive, callerVars, ownerVars, eventVars, produced>>

BufCycle ==
    /\ nextId <= 1 + BufCmds
    /\ handle_ui_events_with(1, BufHandlers)

NextBuf ==
    \/ BufCycle
    \/ recv(1)
    \/ BufArrives
    \/ OwnerRecv
    \/ Phase1Run
    \/ Phase2Step
    \/ Phase2End
    \/ SendReply

SpecBuf == InitBuf /\ [][NextBuf]_vars

\* ---------------------------------------------------------------- fairness
\* The owner thread is scheduled and its callbacks return (or panic); a
\* caller blocked in recv() wakes up when recv() can return.
OwnerStep ==
    \/ OwnerInit
    \/ OwnerRecv
    \/ OwnerChannelClosed
    \/ OwnerReturn
    \/ LambdaArm
    \/ CreateWindowArm
    \/ Phase1Step
    \/ Phase2Step
    \/ Phase2End
    \/ SendReply

FairSpec ==
    /\ Init
    /\ [][Next]_vars
    /\ WF_vars(OwnerStep)
    /\ \A c \in Callers : WF_vars(recv(c))

\* ================================================================== claims

\* The state SpecBuf starts in is one Spec reaches (here with n = MaxEvents).
AfterFirstCycle_Reached == AfterFirstCycle(MaxEvents)

\* caller c makes a step that calls an operation of its handle
Called(c) ==
    /\ cpc[c] = "idle"
    /\ \/ cop'[c] # cop[c]
       \/ result'[c] # result[c]
       \/ cpc'[c] = "waiting"

\* C1: once the loop has taken an Exit and dropped the Receiver, an operation
\* called on any handle returns UiThreadExited: it is not Ok and the caller
\* does not start waiting.
C1_PostExitFails ==
    [][\A c \in Callers :
         (why = "Exit" /\ ~rxAlive /\ Called(c))
            => (result'[c] = UiThreadExited /\ cpc'[c] # "waiting")]_vars

\* C1 witness: a first exit() was Ok and taken by the loop, a second one on
\* the other handle failed
C1_Witness ==
    /\ why = "Exit" /\ ~rxAlive
    /\ cop[1] = "exit" /\ result[1] = Ok(Unit)
    /\ cop[2] = "exit" /\ result[2] = UiThreadExited

\* C2: a caller in recv() whose owner thread is gone finds its reply Sender
\* dropped, so recv() returns UiThreadExited unless the reply is there; and
\* with a fair owner thread every synchronous call returns.
C2_NeverHangs ==
    /\ [](\A c \in Callers :
            (cpc[c] = "waiting" /\ opc = "terminated") => ~reply[c].tx)
    /\ \A c \in Callers : (cpc[c] = "waiting") ~> (cpc[c] = "idle")

\* C2 witness: a caller is in recv(), the owner thread is gone and sent nothing
C2_Witness ==
    \E c \in Callers :
        /\ cpc[c] = "waiting"
        /\ opc = "terminated"
        /\ ~reply[c].full
        /\ ~reply[c].tx

\* a cycle with the closure `|..| false` that started with Cap + 1 events on
\* the list, none ever claimed, is past its first phase / is over
C3_Cycle(pcs) ==
    /\ opc \in pcs /\ cur.kind = "HandleEvent" /\ cur.h = "none"
    /\ Len(backlog0) = Cap + 1 /\ claimed = {}

\* C3 (as stated): 2001 events are on the list, none ever claimed; one more
\* cycle with the closure `|..| false` leaves at most 2000 entries, and the
\* oldest of the 2001 is the one evicted.
C3_Original ==
    C3_Cycle({"reply"})
    => /\ Len(unhandled_events) <= Cap
       /\ evicted \cap Range(backlog0) = {backlog0[1]}

\* C3 (amended): ... the cycle leaves the 2000 newest of the 2001, followed
\* by the events polled in that cycle: at most 2000 entries plus those, and
\* of the 2001 the oldest is the one evicted.
C3_BoundedBacklog ==
    C3_Cycle({"phase2", "reply"})
    => /\ unhandled_events = SubSeq(backlog0, 2, Cap + 1) \o polled
       /\ Len(unhandled_events) <= Cap + Len(polled)
       /\ evicted \cap Range(backlog0) = {backlog0[1]}

\* C3 witness: such a cycle is over, event 1 is evicted, 2000 are left
C3_Witness ==
    /\ C3_Cycle({"reply"})
    /\ Len(unhandled_events) = Cap
    /\ evicted = {1}

\* event e is passed to the handler in this step
Offered(e) == delivered' = Append(delivered, e)

\* C4: an event a handler returned true for is not on the list and not in
\* the event source afterwards, and is never passed to a handler again.
C4_ClaimedOnce ==
    /\ [](claimed \cap (Range(unhandled_events) \cup Range(pending)) = {})
    /\ [][\A e \in claimed : ~Offered(e)]_vars

\* C4 witness: an event was claimed in an earlier cycle, and a later cycle has
\* run with an older event still on the list
C4_Witness ==
    /\ opc = "reply"
    /\ unhandled_events # <<>>
    /\ delivered # <<>>
    /\ \E e \in claimed : e \notin Range(delivered) /\ e > Head(unhandled_events)

Increasing(q) == \A i, j \in 1..Len(q) : i < j => q[i] < q[j]

\* C5: events are passed to the handler in the order they were polled
\* (event numbers are given in that order), and between cycles the list is
\* in that order too.
C5_FifoReplay ==
    /\ Increasing(delivered)
    /\ opc # "phase1" => Increasing(unhandled_events)

\* C5 witness: E1, E2, E3 were on the list; this cycle saw E1, E2, E3 in that
\* order and took E2; E1 is before E3 on the list
C5_Witness ==
    /\ opc = "reply"
    /\ backlog0 = <<1, 2, 3>>
    /\ delivered = <<1, 2, 3>>
    /\ claimed = {2}
    /\ unhandled_events = <<1, 3>>

\* C6: run_on_ui_thread does not wait, and when a synchronous call returns Ok
\* (or its reply is there), every Lambda the same handle sent before it has
\* run to completion.
C6_FifoPerHandle ==
    \A c \in Callers :
        /\ cop[c] = "run_on_ui_thread" => cpc[c] # "waiting"
        /\ (cop[c] \in SyncOps /\ (result[c].tag = "Ok" \/ reply[c].full))
              => unrun[c] = {}

\* C6 witness: caller 1 alone: create_window, a Lambda that closed the
\* window, then a handle_ui_events that returned Ok
C6_Witness ==
    /\ cop[2] = "-"
    /\ cop[1] = "handle_ui_events" /\ result[1] = Ok(Unit)
    /\ closed # {}
    /\ unrun[1] = {}

\* when the reply of a CreateWindow is about to be sent
C7_AtReply ==
    (opc = "reply" /\ cur.kind = "CreateWindow") =>
        /\ window_id = produced[cur.from]
        /\ window_id.tag \in {"Some", "None"}
        /\ window_id.tag = "Some" =>
              (window_id.id \in DOMAIN windows /\ windows[window_id.id] = cur.id)

\* what create_window returned
C7_AtReturn ==
    \A c \in Callers :
        cop[c] = "create_window" =>
            /\ result[c].tag = "Ok" =>
                  (result[c].val = produced[c] /\ produced[c].tag \in {"Some", "None"})
            /\ result[c] = UiThreadExited => ~rxAlive

\* C7: create_window returns Ok(Some(id)) exactly when the factory made a
\* window and Ok(None) exactly when it declined; when the reply is sent the
\* map holds that window under id; a factory that declines leaves the map as
\* it was; UiThreadExited is returned only when the owner thread is gone.
C7_CreateWindow ==
    /\ [](C7_AtReply /\ C7_AtReturn)
    /\ [][(opc = "create" /\ opc' = "reply" /\ window_id' = None)
             => windows' = windows]_vars

\* C7 witness: one caller got Ok(Some(1)), the other Ok(None), and the map
\* holds window 1 only
C7_Witness ==
    /\ cop[1] = "create_window" /\ result[1] = Ok(Some(1))
    /\ cop[2] = "create_window" /\ result[2] = Ok(None)
    /\ DOMAIN windows = {1}

\* create_window on handle c returned an id
Returned(c) ==
    cop[c] = "create_window" /\ result[c].tag = "Ok" /\ result[c].val.tag = "Some"

InCallback == opc \in {"lambda", "create", "phase1", "phase2"}

DistinctIds ==
    \A c, d \in Callers :
        (c # d /\ Returned(c) /\ Returned(d)) => result[c].val.id # result[d].val.id

C8_CoreStep ==
    (opc # "lambda" /\ opc' # "terminated") =>
        /\ \A i \in DOMAIN windows : i \in DOMAIN windows' /\ windows'[i] = windows[i]
        /\ windows' # windows =>
              /\ opc = "create" /\ window_id'.tag = "Some"
              /\ DOMAIN windows' = DOMAIN windows \cup {window_id'.id}
              /\ window_id'.id \notin DOMAIN windows \cup closed

NoDuplicates(q) == \A i, j \in 1..Len(q) : i # j => q[i] # q[j]

InChan(c, kind) == \E i \in 1..Len(chan) : chan[i].from = c /\ chan[i].kind = kind

\* C9: when the reply of a handle_ui_events cycle is sent, the handler has
\* been given the backlog of the start of the cycle, oldest first, and then
\* the events polled in the cycle, each once; and a caller has its Ok only
\* when its cycle is over.
C9_CycleComplete ==
    /\ (opc = "reply" /\ cur.kind = "HandleEvent") =>
          /\ delivered = backlog0 \o polled
          /\ NoDuplicates(delivered)
          /\ event_num = len /\ len = Len(backlog0)
    /\ \A c \in Callers :
          (cop[c] = "handle_ui_events" /\ (result[c].tag = "Ok" \/ reply[c].full)) =>
              /\ ~(cur.from = c /\ cur.kind = "HandleEvent")
              /\ ~InChan(c, "HandleEvent")

\* C9 witness: a cycle with a backlog and with fresh events is about to reply
C9_Witness ==
    /\ opc = "reply" /\ cur.kind = "HandleEvent"
    /\ Len(backlog0) >= 2
    /\ polled # <<>>

\* the loop takes a command in this step
Taken == cur' # cur /\ cur' # NoMsg

\* C10: at most one callback runs at a time, and a command is taken from the
\* channel only when nothing is being executed.
C10_OneAtATime ==
    /\ [](Cardinality(executing) <= 1 /\ (executing # {} => executing = {cur.id}))
    /\ [][Taken => (opc = "recv" /\ cur = NoMsg /\ executing = {})]_vars

\* C10 witness: a callback runs while both callers have a command in the channel
C10_Witness ==
    /\ Cardinality(executing) = 1
    /\ Len(chan) = 2
    /\ chan[1].from # chan[2].from

\* a step of a caller thread: it calls or returns from an operation of its handle
CallerStep == <<cpc, cop, result, nextId>>' # <<cpc, cop, result, nextId>>

\* the SDL context, the map and the list of the owner thread
Confined == <<windows, nextWindowId, window_id, unhandled_events, len,
              num_events_to_drop, event_num>>

C12_ExitTerminal ==
    /\ [][(opc = "recv" /\ cur'.kind = "Exit") => opc' = "break"]_vars
    /\ [][opc = "break" => opc' \in {"break", "terminated"}]_vars
    /\ [][opc = "terminated" => (opc' = "terminated" /\ ~rxAlive')]_vars
    /\ [](why = "Exit" =>
            /\ opc \in {"break", "terminated"}
            /\ executing = {}
            /\ \A i \in 1..Len(chan) : chan[i].id \notin ran)
    /\ [][why = "Exit" => (ran' = ran /\ executing' = {} /\ windows' \in {windows, << >>})]_vars
    /\ [](\A c \in Callers : cop[c] = "exit" => (cpc[c] = "gone" /\ result[c] # NoResult))
    /\ (why = "Exit") ~> (opc = "terminated")

\* C12 witness: the thread ended by Exit while the other handle was alive and
\* had got Ok for a Lambda that was behind the Exit and never ran
C12_Witness ==
    /\ why = "Exit" /\ opc = "terminated"
    /\ \E c \in Callers :
          /\ cpc[c] # "gone"
          /\ cop[c] = "run_on_ui_thread" /\ result[c] = Ok(Unit)
          /\ unrun[c] # {}

AllDropped == \A c \in Callers : cpc[c] = "gone"

Running == opc \in {"recv", "lambda", "create", "phase1", "phase2", "reply"}

\* the loop is left in this step
LeavesRunning == Running /\ ~Running'

\* C13: the loop is left only on an Exit, on the closed channel or on a
\* panicking callback.  It finds the channel closed only when every handle is
\* dropped and every command sent has been executed; commands are taken
\* oldest first; with every handle dropped the thread ends, and then the map,
\* the list and the Receiver are gone.
C13_LeavesRunning ==
    /\ [][LeavesRunning =>
            \/ why' = "Exit" /\ cur'.kind = "Exit" /\ opc = "recv"
            \/ why' = "closed" /\ opc = "recv" /\ AllDropped /\ chan = <<>>
            \/ why' = "panic" /\ InCallback]_vars
    /\ [](why = "closed" => (AllDropped /\ chan = <<>> /\ ran = 1..(nextId - 1)))
    /\ [][Taken => (cur' = Head(chan) /\ \A i \in ran \cup executing : i < cur'.id)]_vars
    /\ []((~Running /\ opc # "init" /\ ~AllDropped) => why \in {"Exit", "panic"})
    /\ [](opc = "terminated" => (windows = << >> /\ unhandled_events = <<>> /\ ~rxAlive))
    /\ AllDropped ~> (opc = "terminated")

\* C13 witness: every handle is dropped, no Exit was sent, and the loop is
\* executing a queued command with another one behind it
C13_Witness ==
    /\ AllDropped
    /\ why = "-"
    /\ opc = "lambda"
    /\ chan # <<>>
    /\ \A i \in 1..Len(chan) : chan[i].kind # "Exit"

\* The Receiver of a reply channel lives in create_window / handle_ui_events
\* until rx.recv() returns (lib.rs:143-145, 161-163), so it is there whenever
\* the owner thread holds or is about to answer that caller's command: the
\* `let _ = tx.send(..)` of lib.rs:53 and lib.rs:86 finds it alive.
ReplyReceiverAlive ==
    /\ HasReplyTx(cur) => (cpc[cur.from] = "waiting" /\ reply[cur.from] = NewReply)
    /\ \A i \in 1..Len(chan) :
          HasReplyTx(chan[i]) => (cpc[chan[i].from] = "waiting" /\ reply[chan[i].from] = NewReply)

\* a HandleEvent cycle is in or past its first phase
InCycle == cur.kind = "HandleEvent" /\ opc \in {"phase1", "phase2", "reply"}

\* C15: in the first phase, the entry at index i of the list the cycle started
\* with (0 the oldest), once the handler has seen it and not taken it, is back
\* on the list if and only if i >= len - 2000, and is dropped for good
\* otherwise: no unclaimed entry is dropped when len <= 2000, and only entries
\* among the len - 2000 oldest are dropped when len > 2000.
C15_EvictionRule ==
    /\ InCycle =>
          LET n    == Len(backlog0)
              list == Range(unhandled_events)
          IN  /\ len = n
              /\ \A i \in 0..(event_num - 1) :
                    LET e == backlog0[i + 1] IN
                    /\ e \in list <=> (e \notin claimed /\ i >= n - Cap)
                    /\ e \in evicted <=> (e \notin claimed /\ i < n - Cap)
              /\ n <= Cap => evicted \cap Range(backlog0) = {}
              /\ n > Cap => evicted \cap Range(backlog0) \subseteq Range(SubSeq(backlog0, 1, n - Cap))
    /\ evicted \cap (Range(unhandled_events) \cup Range(pending)) = {}

\* C15 witness: a cycle that started with 2001 entries and whose closure takes
\* every second event is past its first phase: the oldest entry, not taken,
\* is the one dropped
C15_Witness ==
    /\ InCycle /\ opc = "reply" /\ cur.h = "even"
    /\ Len(backlog0) = Cap + 1
    /\ evicted = {backlog0[1]}
    /\ backlog0[2] \in claimed
    /\ backlog0[3] \in Range(unhandled_events)

\* the events polled in this cycle that the handler did not take
PolledUnclaimed == {i \in 1..Len(polled) : polled[i] \notin claimed}

\* C16: when the first phase of a cycle is over the list holds at most 2000
\* entries, whatever it held when the cycle started; from there to the end of
\* the cycle it holds at most 2000 plus the events polled in the cycle and
\* not taken.
C16_Capacity ==
    (InCycle /\ opc \in {"phase2", "reply"}) =>
        /\ polled = <<>> => Len(unhandled_events) <= Cap
        /\ Len(unhandled_events) <= Cap + Cardinality(PolledUnclaimed)

\* C16 witness: a cycle that started with 2002 entries has finished its first
\* phase with 2000 left
C16_Witness ==
    /\ InCycle /\ opc = "phase2" /\ polled = <<>>
    /\ Len(backlog0) = Cap + 2
    /\ Len(unhandled_events) = Cap

\* C17: an event polled in a cycle and not taken is on the list, and not
\* evicted, until that cycle ends, however long the list is; an event is
\* evicted only in a cycle that found it on the list when it started, and
\* only once that cycle's handler has been given it.
C17_OneCycleLag ==
    /\ [](InCycle =>
            \A i \in PolledUnclaimed :
                polled[i] \in Range(unhandled_events) /\ polled[i] \notin evicted)
    /\ [][\A e \in evicted' \ evicted :
            /\ e \in Range(backlog0')
            /\ e \in Range(delivered')
            /\ e \notin Range(polled')]_vars

\* C17 witness: a cycle that started with 2001 entries polled an event nobody
\* took: it is the 2001st entry of the list at the reply; the event evicted in
\* this cycle was the first one given to the handler
C17_Witness ==
    /\ InCycle /\ opc = "reply"
    /\ Len(backlog0) = Cap + 1
    /\ Len(polled) = 1 /\ PolledUnclaimed = {1}
    /\ Len(unhandled_events) = Cap + 1
    /\ unhandled_events[Cap + 1] = polled[1]
    /\ evicted = {delivered[1]}

\* the first phase of a HandleEvent cycle is over
Phase1Over == InCycle /\ opc \in {"phase2", "reply"}

\* entries of the list the cycle started with that its handler did not take
UnclaimedBacklog == {i \in 1..Len(backlog0) : backlog0[i] \notin claimed}

\* entries of the list the cycle started with that were dropped untaken
DroppedBacklog == evicted \cap Range(backlog0)

\* the length the list had when the first phase ended
LenAfterPhase1 == Len(unhandled_events) - Cardinality(PolledUnclaimed)

\* C18 (as stated): an untaken entry is dropped only when the entries left
\* untaken exceed 2000; when at least 2000 are left untaken the first phase
\* ends with exactly 2000 entries; when the claims of the cycle leave 2000 or
\* fewer untaken, no untaken entry is dropped.
C18_Original ==
    Phase1Over =>
        /\ DroppedBacklog # {} => Cardinality(UnclaimedBacklog) > Cap
        /\ Cardinality(UnclaimedBacklog) >= Cap => LenAfterPhase1 = Cap
        /\ Cardinality(UnclaimedBacklog) <= Cap => DroppedBacklog = {}

\* C18 (amended): an untaken entry is dropped only when the list held more
\* than 2000 entries when the cycle started, taken or not, and then only among
\* its len - 2000 oldest; when the list held at least 2000 entries and the
\* handler takes none of them the first phase ends with exactly 2000; when the
\* list held 2000 or fewer no untaken entry is dropped.  Claims made in the
\* cycle do not spare the oldest entries: the first phase ends with the
\* untaken entries less the dropped ones.
C18_ExcessAtStart ==
    Phase1Over =>
        /\ DroppedBacklog # {} => Len(backlog0) > Cap
        /\ DroppedBacklog \subseteq Range(SubSeq(backlog0, 1, Len(backlog0) - Cap))
        /\ (Len(backlog0) >= Cap /\ Cardinality(UnclaimedBacklog) = Len(backlog0))
              => LenAfterPhase1 = Cap
        /\ Len(backlog0) <= Cap => DroppedBacklog = {}
        /\ LenAfterPhase1 = Cardinality(UnclaimedBacklog) - Cardinality(DroppedBacklog)

\* C18 witness: 2001 entries, the closure takes every second one: fewer than
\* 2000 are left untaken and yet the oldest, untaken, is dropped
C18_Witness ==
    /\ Phase1Over /\ opc = "phase2" /\ polled = <<>>
    /\ Len(backlog0) = Cap + 1
    /\ Cardinality(UnclaimedBacklog) < Cap
    /\ DroppedBacklog # {}
    /\ LenAfterPhase1 < Cap

\* the HandleEvent commands of caller c that are queued or being executed
Outstanding(c) ==
    {i \in 1..Len(chan) : chan[i].kind = "HandleEvent" /\ chan[i].from = c}
        \cup (IF cur.kind = "HandleEvent" /\ cur.from = c THEN {0} ELSE {})

QueuedOfKind(kind) == {i \in 1..Len(chan) : chan[i].kind = kind}

\* C19: a caller thread has at most one HandleEvent queued or being
\* executed, and is inside handle_ui_events while it has one; so the channel
\* never holds more HandleEvents than there are caller threads.
C19_NoPileUp ==
    /\ \A c \in Callers :
          /\ Cardinality(Outstanding(c)) <= 1
          /\ Outstanding(c) # {} => (cpc[c] = "waiting" /\ cop[c] = "handle_ui_events")
    /\ Cardinality(QueuedOfKind("HandleEvent")) <= NumCallers

\* C19 witness: every caller thread has a HandleEvent in the channel, behind
\* a Lambda that is still queued
C19_Witness ==
    /\ Cardinality(QueuedOfKind("HandleEvent")) = NumCallers
    /\ \A c \in Callers : Cardinality(Outstanding(c)) = 1
    /\ QueuedOfKind("Lambda") # {}

\* the events poll_iter() has returned so far
EverPolled == (1..(nextEvent - 1)) \ Range(pending)

NoRepeat(q) == Cardinality(Range(q)) = Len(q)

\* C20: while the loop lives, every event polled so far is in exactly one of
\* three places: taken by a handler, on the list (once), or evicted; the list
\* never holds an event twice; an evicted event is not given to a handler
\* again; and an event comes onto the list only in the step in which it was
\* polled and given to the handler.
C20_Conservation ==
    /\ [](opc # "terminated" =>
            /\ EverPolled = claimed \cup Range(unhandled_events) \cup evicted
            /\ claimed \cap evicted = {}
            /\ claimed \cap Range(unhandled_events) = {}
            /\ evicted \cap Range(unhandled_events) = {}
            /\ NoRepeat(unhandled_events)
            /\ NoRepeat(delivered))
    /\ [][\A e \in evicted : e \notin Range(delivered') \ Range(delivered)]_vars
    /\ [][\A e \in Range(unhandled_events') \ Range(unhandled_events) :
            e \in Range(polled') /\ e \in Range(delivered')]_vars

\* C20 witness: between two commands, after a cycle that took some events,
\* evicted one and left others, with an event polled after the first cycle
\* among those accounted for
C20_Witness ==
    /\ opc = "recv" /\ cur = NoMsg
    /\ claimed # {} /\ evicted # {} /\ unhandled_events # <<>>
    /\ EverPolled = 1..(Cap + 2)

====
